---- MODULE Spec2Model ----
(***************************************************************************)
(* Model of the execution core of cfrp-rs: the Input threads and their     *)
(* NoOp broadcast protocol (src/src/primitives/input.rs), the Channel      *)
(* source that drives a lane's consumer thread                             *)
(* (src/src/primitives/channel.rs) and the Lift pusher                     *)
(* (src/src/primitives/lift.rs).                                           *)
(*                                                                         *)
(* A lane is the outbound queue of one Input.  Lane j is consumed by one   *)
(* Runner thread that executes Channel::push_to(Some(LiftPusher)), i.e.    *)
(* the topology  listen(initial, rx).lift(F)  or  value(v).lift(F).        *)
(***************************************************************************)
EXTENDS Integers, Sequences, FiniteSets, TLC

\* ------------------------------------------------------------------ bounds
MaxSends  == 2      \* external sends over a whole run
QueueCap  == 2      \* events an outbound queue buffers before send blocks
MaxLoop   == 1      \* iterations of ValueInput's Unchanged loop that are followed
MaxAborts == 1      \* Runner threads whose user function aborts

\* The code never inspects a payload (A is a type parameter), so the k-th value
\* sent is taken to be k: every sent value is distinct.
Values == 1..MaxSends

\* ------------------------------------------------------------------ events
\* enum Event<A> { Changed(A), Unchanged, Exit }
Changed(a) == [tag |-> "Changed", val |-> a]
Unchanged  == [tag |-> "Unchanged", val |-> 0]
Exit       == [tag |-> "Exit", val |-> 0]

VARIABLES
    kind,       \* kind[i]: "receiver" (ReceiverInput) or "value" (ValueInput)
    ext,        \* ext[i]: values buffered in the external queue of Input i (rx)
    extOpen,    \* extOpen[i]: the external Sender of Input i is still alive
    out,        \* out[j]: events buffered in lane j's outbound queue (tx -> source_rx)
    pc,         \* pc[i]: position of Input thread i
    pos,        \* pos[i]: index reached in the iteration of the NoOp vector
    cur,        \* cur[i]: the value `a` Input i received last
    lock,       \* holder of the Mutex around the NoOp vector, 0 when free
    poisoned,   \* the Mutex was poisoned by a panic of its holder
    loops,      \* loops[i]: iterations ValueInput i made of its Unchanged loop
    rpc,        \* rpc[j]: position of lane j's Runner thread
    pushed,     \* pushed[j]: events Channel j pushed to its sink (the LiftPusher)
    calls,      \* calls[j]: arguments of the invocations of f on lane j, in order
    sunk,       \* sunk[j]: events the LiftPusher of lane j pushed to its child
    hist,       \* hist[j]: every event ever enqueued on lane j, with tick and sender
    sent,       \* sent[i]: values sent on the external queue of Input i
    ticks,      \* ticks[t]: Input and value of the t-th external arrival
    tk,         \* tk[i]: tick of the arrival Input i is broadcasting
    tdone,      \* ticks whose broadcast loop ran to its end
    fold,       \* a Fold node: accumulator, events received, calls of f, events emitted
    fork,       \* a Fork node: events of its parent, per-Branch queue, per-Branch received
    liftn,      \* a LiftN node: per-parent queue and consumed events, cache, calls, output
    async,      \* an Async node: state of the wrapped function, its argument, the sends planned
    noops,      \* noops[k]: the lane the k-th handle of the shared NoOp vector sends to
    builder     \* the Builder's collections, the Forks' sink vectors and the phase

coreVars == <<kind, ext, extOpen, out, pc, pos, cur, lock, poisoned, loops, rpc,
              pushed, calls, sunk, hist, sent, ticks, tk, tdone>>
nodes    == <<fold, fork, liftn, async, noops, builder>>
vars     == <<coreVars, nodes>>

\* ------------------------------------------------------------------ topology
\* The Inputs of the topology in the order Builder registered them, which is
\* the order of the NoOp vector Topology::run collects and of the indices it
\* hands to the threads.  Every two-input topology is checked.
Kinds      == {"receiver", "value"}
Topologies == {<<a, b>> : a \in Kinds, b \in Kinds}
Lanes      == DOMAIN kind
NumInputs  == Len(kind)

\* Mutant: the handle of Input k is a clone of the Sender of the previous Input.
BoxedNoOp_Shifted(k) == IF k = 1 THEN NumInputs ELSE k - 1

\* boxed_no_op of Input k: a clone of its own tx, the Sender of lane k.
BoxedNoOp(k) == k

\* Topology::run collects one handle per Input, in the order of the Inputs.
NoOpVector == [k \in 1..NumInputs |-> BoxedNoOp(k)]

\* Topology::run runs the Inputs with their index in that same enumeration.
InputIdx(i) == i

\* ------------------------------------------------------------------ helpers
\* The user function given to lift; the tests use |i| i | 2.
F(a) == 2 * a + 1

\* Initial value of every source (listen(0, rx), value(0) in the tests).
Initial(i) == 0

\* The receiving end of lane j's outbound queue exists while its Runner runs.
RxAlive(j) == rpc[j] \in {"run", "drain"}

\* A send on lane j fails (Err) once the Receiver has been dropped.
SendErr(j) == ~RxAlive(j)

\* Mutant: a send also waits while the lane's consumer is inside a user function.
CanSend_Rendezvous(j) ==
    RxAlive(j) /\ Len(out[j]) < QueueCap /\ ~(j = 1 /\ async.st = "busy")

\* A send on lane j can complete: the Receiver exists and the buffer has room.
CanSend(j) == RxAlive(j) /\ Len(out[j]) < QueueCap

\* Mutant: a lane's queue is closed as soon as one Input thread has finished.
NoSenders_Any == \E i \in Lanes : pc[i] \in {"done", "panic"}

\* Every Input thread has finished, so every Sender of every lane (each
\* Input's tx and the clones in the shared NoOp vector) has been dropped.
NoSenders == \A i \in Lanes : pc[i] \in {"done", "panic"}

Entry(e, t, i) == [ev |-> e, tick |-> t, by |-> i]

Enqueue(j, e, t, i) ==
    /\ out'  = [out  EXCEPT ![j] = Append(@, e)]
    /\ hist' = [hist EXCEPT ![j] = Append(@, Entry(e, t, i))]

\* Number of values sent on the external queues so far.
NumSent == LET S[k \in 0..NumInputs] == IF k = 0 THEN 0 ELSE S[k - 1] + Len(sent[k])
           IN  S[NumInputs]

\* ------------------------------------------------------------------ Init
\* Builder::add calls root.initial(); for a Lift over listen(initial, rx) this
\* evaluates f on the Channel's initial value.
LiftInitialCalls(k, j) == IF k = "receiver" THEN <<Initial(j)>> ELSE <<>>

CoreInit ==
    /\ kind \in Topologies
    /\ ext = [i \in Lanes |-> <<>>]
    /\ extOpen = [i \in Lanes |-> kind[i] = "receiver"]
    /\ out = [j \in Lanes |-> <<>>]
    /\ pc = [i \in Lanes |-> "start"]
    /\ pos = [i \in Lanes |-> 0]
    /\ cur = [i \in Lanes |-> 0]
    /\ lock = 0
    /\ poisoned = FALSE
    /\ loops = [i \in Lanes |-> 0]
    /\ rpc = [j \in Lanes |-> "run"]
    /\ pushed = [j \in Lanes |-> <<>>]
    /\ calls = [j \in Lanes |-> LiftInitialCalls(kind[j], j)]
    /\ sunk = [j \in Lanes |-> <<>>]
    /\ hist = [j \in Lanes |-> <<>>]
    /\ sent = [i \in Lanes |-> <<>>]
    /\ ticks = <<>>
    /\ tk = [i \in Lanes |-> 0]
    /\ tdone = {}

\* ------------------------------------------------------------------ environment
\* An external producer sends v on the queue that Input i listens to.
ExtSend(i, v) ==
    /\ kind[i] = "receiver"
    /\ extOpen[i]
    /\ NumSent < MaxSends
    /\ v = NumSent + 1
    /\ ext' = [ext EXCEPT ![i] = Append(@, v)]
    /\ sent' = [sent EXCEPT ![i] = Append(@, v)]
    /\ UNCHANGED <<nodes, kind, extOpen, out, pc, pos, cur, lock, poisoned, loops, rpc,
                   pushed, calls, sunk, hist, ticks, tk, tdone>>

\* The external producer drops its Sender: the queue of Input i is closed.
ExtClose(i) ==
    /\ kind[i] = "receiver"
    /\ extOpen[i]
    /\ extOpen' = [extOpen EXCEPT ![i] = FALSE]
    /\ UNCHANGED <<nodes, kind, ext, out, pc, pos, cur, lock, poisoned, loops, rpc,
                   pushed, calls, sunk, hist, sent, ticks, tk, tdone>>

\* ------------------------------------------------------------------ ReceiverInput
\* Mutant: the ReceiverInput emits Changed(initial) before its loop.
ReceiverPrologue_Initial(i) == <<Changed(Initial(i))>>

\* Events a ReceiverInput enqueues on its own lane before its loop: run
\* destructures self and enters the loop, it sends nothing.
ReceiverPrologue(i) == <<>>

\* Mutant: the test of the index is inverted.
BcastEvent_Inverted(i, k, a) == IF k # i THEN Changed(a) ELSE Unchanged

\* The event Input i sends at position k of the NoOp vector for value a.
BcastEvent(i, k, a) == IF k = InputIdx(i) THEN Changed(a) ELSE Unchanged

\* The lane written at position k by Input i: its own tx at its own index,
\* the k-th handle of the vector elsewhere.
BcastLane(i, k) == IF k = InputIdx(i) THEN i ELSE noops[k]

\* Advance of the iteration over the NoOp vector.
NextPos(k) == k + 1

\* Mutant: the broadcast does not wait for the guard.
LockFree_Always == TRUE

\* txs.lock() blocks until no other thread holds the guard.
LockFree == lock = 0

\* The spawned thread enters ReceiverInput::run.
ReceiverStart(i) ==
    /\ kind[i] = "receiver"
    /\ pc[i] = "start"
    /\ pc' = [pc EXCEPT ![i] = "recv"]
    /\ out' = [out EXCEPT ![i] = @ \o ReceiverPrologue(i)]
    /\ hist' = [hist EXCEPT ![i] = @ \o [k \in 1..Len(ReceiverPrologue(i)) |->
                                          Entry(ReceiverPrologue(i)[k], 0, i)]]
    /\ UNCHANGED <<nodes, kind, ext, extOpen, pos, cur, lock, poisoned, loops, rpc,
                   pushed, calls, sunk, sent, ticks, tk, tdone>>

\* rx.recv() returns Ok(a): one external arrival, one tick.
ReceiverRecvOk(i) ==
    /\ kind[i] = "receiver"
    /\ pc[i] = "recv"
    /\ ext[i] # <<>>
    /\ cur' = [cur EXCEPT ![i] = Head(ext[i])]
    /\ ext' = [ext EXCEPT ![i] = Tail(@)]
    /\ ticks' = Append(ticks, [by |-> i, val |-> Head(ext[i])])
    /\ tk' = [tk EXCEPT ![i] = Len(ticks) + 1]
    /\ pc' = [pc EXCEPT ![i] = "lock"]
    /\ UNCHANGED <<nodes, kind, extOpen, out, pos, lock, poisoned, loops, rpc,
                   pushed, calls, sunk, hist, sent, tdone>>

\* rx.recv() returns Err: the queue is empty and its Sender was dropped.
ReceiverRecvErr(i) ==
    /\ kind[i] = "receiver"
    /\ pc[i] = "recv"
    /\ ext[i] = <<>>
    /\ ~extOpen[i]
    /\ pc' = [pc EXCEPT ![i] = "elock"]
    /\ UNCHANGED <<nodes, kind, ext, extOpen, out, pos, cur, lock, poisoned, loops, rpc,
                   pushed, calls, sunk, hist, sent, ticks, tk, tdone>>

\* txs.lock().unwrap(): takes the guard, or panics on a poisoned mutex.
ReceiverLock(i) ==
    /\ pc[i] \in {"lock", "elock"}
    /\ LockFree
    /\ IF poisoned
       THEN /\ pc' = [pc EXCEPT ![i] = "panic"]
            /\ UNCHANGED <<lock, pos>>
       ELSE /\ pc' = [pc EXCEPT ![i] = IF pc[i] = "lock" THEN "bcast" ELSE "exit"]
            /\ lock' = i
            /\ pos' = [pos EXCEPT ![i] = 1]
    /\ UNCHANGED <<nodes, kind, ext, extOpen, out, cur, poisoned, loops, rpc,
                   pushed, calls, sunk, hist, sent, ticks, tk, tdone>>

\* Mutant: the guard outlives the loop.
GuardAfterLoop_Held(i) == i

\* The holder of the mutex once Input i has left its for loop: the guard is a
\* temporary of the loop's iterator expression and is dropped with it.
GuardAfterLoop(i) == 0

\* One iteration of the ordered broadcast loop, under the guard.
ReceiverBcast(i) ==
    /\ pc[i] = "bcast"
    /\ pos[i] \in Lanes
    /\ LET k == pos[i]
           j == BcastLane(i, pos[i])
       IN
       \/ /\ SendErr(j)                   \* tx.send Err / send_no_change true: return
          /\ pc' = [pc EXCEPT ![i] = "done"]
          /\ lock' = 0
          /\ UNCHANGED <<out, hist, pos, tdone>>
       \/ /\ CanSend(j)
          /\ Enqueue(j, BcastEvent(i, k, cur[i]), tk[i], i)
          /\ IF NextPos(k) > NumInputs
             THEN /\ pc' = [pc EXCEPT ![i] = "recv"]
                  /\ lock' = GuardAfterLoop(i)
                  /\ tdone' = tdone \cup {tk[i]}
                  /\ UNCHANGED pos
             ELSE /\ pos' = [pos EXCEPT ![i] = NextPos(k)]
                  /\ UNCHANGED <<pc, lock, tdone>>
    /\ UNCHANGED <<nodes, kind, ext, extOpen, cur, poisoned, loops, rpc,
                   pushed, calls, sunk, sent, ticks, tk>>

\* One iteration of the Exit loop, under the guard; send_exit unwraps the send.
ReceiverExit(i) ==
    /\ pc[i] = "exit"
    /\ pos[i] \in Lanes
    /\ LET k == pos[i]
           j == noops[pos[i]]
       IN
       \/ /\ SendErr(j)                   \* unwrap of Err: panic while holding the guard
          /\ pc' = [pc EXCEPT ![i] = "panic"]
          /\ lock' = 0
          /\ poisoned' = TRUE
          /\ UNCHANGED <<out, hist, pos>>
       \/ /\ CanSend(j)
          /\ Enqueue(j, Exit, 0, i)
          /\ IF k + 1 > NumInputs
             THEN /\ pc' = [pc EXCEPT ![i] = "done"]
                  /\ lock' = 0
                  /\ UNCHANGED pos
             ELSE /\ pos' = [pos EXCEPT ![i] = k + 1]
                  /\ UNCHANGED <<pc, lock>>
          /\ UNCHANGED poisoned
    /\ UNCHANGED <<nodes, kind, ext, extOpen, cur, loops, rpc,
                   pushed, calls, sunk, sent, ticks, tk, tdone>>

\* ------------------------------------------------------------------ ValueInput
\* Mutant: the loop repeats the value instead of Unchanged.
ValueLoopEvent_Changed(v) == Changed(v)

\* The event ValueInput sends in each iteration of its loop.
ValueLoopEvent(v) == Unchanged

\* Mutant: the ValueInput sends through the next handle of the NoOp vector.
ValueLane_Peer(i) == noops[(i % NumInputs) + 1]

\* The lane a ValueInput sends on: its own tx; idx and txs are not used.
ValueLane(i) == i

\* tx.send(Event::Changed(value)); the result is ignored.
ValueStart(i) ==
    /\ kind[i] = "value"
    /\ pc[i] = "start"
    /\ \/ /\ SendErr(ValueLane(i))
          /\ UNCHANGED <<out, hist>>
       \/ /\ CanSend(ValueLane(i))
          /\ Enqueue(ValueLane(i), Changed(Initial(i)), 0, i)
    /\ pc' = [pc EXCEPT ![i] = "loop"]
    /\ UNCHANGED <<nodes, kind, ext, extOpen, pos, cur, lock, poisoned, loops, rpc,
                   pushed, calls, sunk, sent, ticks, tk, tdone>>

\* loop { match tx.send(Event::Unchanged) { Err(_) => return, _ => {} } }
ValueLoop(i) ==
    /\ kind[i] = "value"
    /\ pc[i] = "loop"
    /\ \/ /\ SendErr(ValueLane(i))
          /\ pc' = [pc EXCEPT ![i] = "done"]
          /\ UNCHANGED <<out, hist, loops>>
       \/ /\ CanSend(ValueLane(i))
          /\ loops[i] < MaxLoop
          /\ Enqueue(ValueLane(i), ValueLoopEvent(Initial(i)), 0, i)
          /\ loops' = [loops EXCEPT ![i] = @ + 1]
          /\ UNCHANGED pc
    /\ UNCHANGED <<nodes, kind, ext, extOpen, pos, cur, lock, poisoned, rpc,
                   pushed, calls, sunk, sent, ticks, tk, tdone>>

\* ------------------------------------------------------------------ Runner
\* Mutant: the Exit arm forwards Unchanged.
LiftOut_ExitAsUnchanged(e) == IF e.tag = "Changed" THEN Changed(F(e.val)) ELSE Unchanged

\* LiftPusher::push: the event pushed to the child for an incoming event.
LiftOut(e) == IF e.tag = "Changed" THEN Changed(F(e.val)) ELSE e

\* Mutant: f is evaluated for every incoming event.
LiftArgs_Always(e) == <<e.val>>

\* LiftPusher::push: the arguments f is invoked with for an incoming event.
LiftArgs(e) == IF e.tag = "Changed" THEN <<e.val>> ELSE <<>>

\* Mutant: the queue hands out its newest event.
ChannelTake_Last(q) == q[Len(q)]

\* source_rx.recv() hands out the oldest buffered event.
ChannelTake(q) == Head(q)

\* What remains buffered after a recv.
ChannelRest(q) == Tail(q)

\* Channel::push_to(Some(t)), Ok(a) arm: t.push(a) runs the LiftPusher.
ChannelRecv(j) ==
    /\ rpc[j] = "run"
    /\ out[j] # <<>>
    /\ LET e == ChannelTake(out[j]) IN
       /\ out' = [out EXCEPT ![j] = ChannelRest(@)]
       /\ pushed' = [pushed EXCEPT ![j] = Append(@, e)]
       /\ calls' = [calls EXCEPT ![j] = @ \o LiftArgs(e)]
       /\ sunk' = [sunk EXCEPT ![j] = Append(@, LiftOut(e))]
    /\ UNCHANGED <<nodes, kind, ext, extOpen, pc, pos, cur, lock, poisoned, loops, rpc,
                   hist, sent, ticks, tk, tdone>>

\* The user function aborts inside t.push(a): the Runner thread unwinds and
\* drops source_rx with whatever it still buffers.
ChannelRecvAbort(j) ==
    /\ rpc[j] = "run"
    /\ out[j] # <<>>
    /\ ChannelTake(out[j]).tag = "Changed"
    /\ Cardinality({l \in Lanes : rpc[l] = "aborted"}) < MaxAborts
    /\ LET e == ChannelTake(out[j]) IN
       /\ pushed' = [pushed EXCEPT ![j] = Append(@, e)]
       /\ calls' = [calls EXCEPT ![j] = @ \o LiftArgs(e)]
    /\ out' = [out EXCEPT ![j] = <<>>]
    /\ rpc' = [rpc EXCEPT ![j] = "aborted"]
    /\ UNCHANGED <<nodes, kind, ext, extOpen, pc, pos, cur, lock, poisoned, loops,
                   sunk, hist, sent, ticks, tk, tdone>>

\* Channel::push_to(Some(t)), Err arm: every Sender is gone and the queue is
\* empty; push Exit and return.
ChannelClosed(j) ==
    /\ rpc[j] = "run"
    /\ out[j] = <<>>
    /\ NoSenders
    /\ pushed' = [pushed EXCEPT ![j] = Append(@, Exit)]
    /\ calls' = [calls EXCEPT ![j] = @ \o LiftArgs(Exit)]
    /\ sunk' = [sunk EXCEPT ![j] = Append(@, LiftOut(Exit))]
    /\ rpc' = [rpc EXCEPT ![j] = "done"]
    /\ UNCHANGED <<nodes, kind, ext, extOpen, out, pc, pos, cur, lock, poisoned, loops,
                   hist, sent, ticks, tk, tdone>>

\* ------------------------------------------------------------------ nodes
\* The transformation nodes whose pushers are driven by a parent's events.
\* Each is checked on its own, under every bounded sequence of parent events.
MaxEvents   == 4    \* events a parent emits into a Fold or a Fork
MaxTicks    == 2    \* events each parent emits into a LiftN
NumBranches == 2    \* Branches attached to the Fork

\* The events a parent can emit.
Events == {Changed(v) : v \in Values} \cup {Unchanged, Exit}

\* ---- Fold: fold(seed, f) with f = |acc, a| acc + a
FoldF(acc, a) == acc + a

\* The accumulator after an event.
FoldAcc(acc, e) == IF e.tag = "Changed" THEN FoldF(acc, e.val) ELSE acc

\* Mutant: f is invoked for every event of the stream.
FoldArgs_Always(acc, e) == <<e.val>>

\* The arguments f is invoked with for an event.
FoldArgs(acc, e) == IF e.tag = "Changed" THEN <<e.val>> ELSE <<>>

\* The event the Fold emits for an event.
FoldOut(acc, e) == IF e.tag = "Changed" THEN Changed(FoldAcc(acc, e)) ELSE e

FoldInit == [acc |-> 0, in |-> <<>>, calls |-> <<>>, out |-> <<>>]

\* The parent pushes e into the Fold.
FoldPush(e) ==
    /\ Len(fold.in) < MaxEvents
    /\ fold' = [acc   |-> FoldAcc(fold.acc, e),
                in    |-> Append(fold.in, e),
                calls |-> fold.calls \o FoldArgs(fold.acc, e),
                out   |-> Append(fold.out, FoldOut(fold.acc, e))]
    /\ UNCHANGED <<coreVars, fork, liftn, async, noops, builder>>

\* ---- Fork and Branch
Branches == 1..NumBranches

\* Mutant: only the first sink of the vector is served.
ForkSinks_First == {1}

\* The sinks a ForkPusher pushes a clone of every event to.
ForkSinks == Branches

ForkInit == [emitted |-> <<>>,
             q       |-> [b \in Branches |-> <<>>],
             got     |-> [b \in Branches |-> <<>>]]

\* The Fork's parent pushes e: a clone goes to every sink of the vector.
ForkPush(e) ==
    /\ Len(fork.emitted) < MaxEvents
    /\ fork' = [fork EXCEPT !.emitted = Append(@, e),
                            !.q = [b \in Branches |->
                                     IF b \in ForkSinks THEN Append(@[b], e) ELSE @[b]]]
    /\ UNCHANGED <<coreVars, fold, liftn, async, noops, builder>>

\* The consumer of Branch b receives the oldest event of its queue.
BranchRecv(b) ==
    /\ fork.q[b] # <<>>
    /\ fork' = [fork EXCEPT !.q[b] = Tail(@),
                            !.got[b] = Append(@, Head(fork.q[b]))]
    /\ UNCHANGED <<coreVars, fold, liftn, async, noops, builder>>

\* ---- LiftN over two parents, f = |a, b| 100 * a + b
Parents == 1..2

LiftNF(c) == 100 * c[1] + c[2]

\* Initial value of parent p, the seed of its cache entry.
ParentInitial(p) == 10 * p

\* Mutant: only the first Changed parent of a tick is written to the cache.
LiftNCache_FirstOnly(c, t) ==
    [p \in Parents |-> IF t[p].tag = "Changed" /\ \A r \in Parents : r < p => t[r].tag # "Changed"
                       THEN t[p].val ELSE c[p]]

\* The cache after the events t of one tick: every Changed parent is updated.
LiftNCache(c, t) == [p \in Parents |-> IF t[p].tag = "Changed" THEN t[p].val ELSE c[p]]

\* The event LiftN emits for the events t of one tick, given the cache c
\* before the tick.
LiftNCombine(c, t) ==
    IF \E p \in Parents : t[p].tag = "Exit" THEN Exit
    ELSE IF \E p \in Parents : t[p].tag = "Changed" THEN Changed(LiftNF(LiftNCache(c, t)))
    ELSE Unchanged

\* Builder::add evaluates initial() of the added signal: f on the parents'
\* initial values.
LiftNInit == [q     |-> [p \in Parents |-> <<>>],
              seen  |-> [p \in Parents |-> <<>>],
              cache |-> [p \in Parents |-> ParentInitial(p)],
              calls |-> << [p \in Parents |-> ParentInitial(p)] >>,
              out   |-> <<>>,
              done  |-> FALSE]

\* Parent p enqueues e on the inbound queue the LiftN owns for it.
ParentEmit(p, e) ==
    /\ Len(liftn.seen[p]) + Len(liftn.q[p]) < MaxTicks
    /\ liftn' = [liftn EXCEPT !.q[p] = Append(@, e)]
    /\ UNCHANGED <<coreVars, fold, fork, async, noops, builder>>

\* One tick: pull one event from every parent, combine, emit.
LiftNTick ==
    /\ ~liftn.done
    /\ \A p \in Parents : liftn.q[p] # <<>>
    /\ LET t == [p \in Parents |-> Head(liftn.q[p])]
           o == LiftNCombine(liftn.cache, t)
       IN  liftn' = [q     |-> [p \in Parents |-> Tail(liftn.q[p])],
                     seen  |-> [p \in Parents |-> Append(liftn.seen[p], t[p])],
                     cache |-> LiftNCache(liftn.cache, t),
                     calls |-> IF o.tag = "Changed"
                               THEN Append(liftn.calls, LiftNCache(liftn.cache, t))
                               ELSE liftn.calls,
                     out   |-> Append(liftn.out, o),
                     done  |-> o = Exit]
    /\ UNCHANGED <<coreVars, fold, fork, async, noops, builder>>

\* The build phase is not followed.
BuilderOff == [phase |-> "off", inputs |-> <<>>, runners |-> <<>>, sinks |-> <<>>,
               pend |-> <<>>, iter |-> {}, idx |-> <<>>, log |-> <<>>]

\* No Async node in the topology.
AsyncOff == [st |-> "off", arg |-> 0, plan |-> <<>>, n |-> 0]

NodesInit ==
    /\ fold = FoldInit /\ fork = ForkInit /\ liftn = LiftNInit /\ async = AsyncOff
    /\ noops = NoOpVector
    /\ builder = BuilderOff

\* No Input and no Runner: the state of an empty topology.
CoreIdle ==
    /\ kind = <<>> /\ ext = <<>> /\ extOpen = <<>> /\ out = <<>> /\ pc = <<>>
    /\ pos = <<>> /\ cur = <<>> /\ lock = 0 /\ poisoned = FALSE /\ loops = <<>>
    /\ rpc = <<>> /\ pushed = <<>> /\ calls = <<>> /\ sunk = <<>> /\ hist = <<>>
    /\ sent = <<>> /\ ticks = <<>> /\ tk = <<>> /\ tdone = {}

NodesStart == CoreIdle /\ NodesInit

NextFold == \E e \in Events : FoldPush(e)

SpecFold == NodesStart /\ [][NextFold]_vars

NextFork ==
    \/ \E e \in Events : ForkPush(e)
    \/ \E b \in Branches : BranchRecv(b)

SpecFork == NodesStart /\ [][NextFork]_vars

NextLiftN ==
    \/ \E p \in Parents, e \in Events : ParentEmit(p, e)
    \/ LiftNTick

SpecLiftN == NodesStart /\ [][NextLiftN]_vars

\* ------------------------------------------------------------------ Async
\* The topology of the test async_sends_async:
\*     slow = listen(1, slow_rx).lift(|i| { if i > 1 { sleep }; i }).async
\*     fast = listen(2, fast_rx)
\*     slow.lift2(fast, |i, j| i | j)
\* Builder registers three Inputs, in this order: the one of slow_rx, the one
\* Async creates over its fresh queue, and the one of fast_rx.  One Runner
\* drives the Channel of the slow lane through the Lift into the Async's queue;
\* another drives the LiftN over the Channels of the async and the fast lane.
SlowLane  == 1
AsyncLane == 2
FastLane  == 3

\* Initial values given to listen; the Async's Input starts from the initial
\* value of the signal it wraps.
AsyncInitial(i) == IF i = FastLane THEN 2 ELSE 1

\* The wrapped function and the test that makes it sleep.
SlowF(v)  == v
IsSlow(v) == v > 1

\* Bitwise or of two naturals.
BitOr(a, b) ==
    LET B[x \in 0..a, y \in 0..b] ==
            IF x = 0 THEN y
            ELSE IF y = 0 THEN x
            ELSE (IF x % 2 = 1 \/ y % 2 = 1 THEN 1 ELSE 0) + 2 * B[x \div 2, y \div 2]
    IN  B[a, b]

\* The function given to lift2.
AsyncF(c) == BitOr(c[1], c[2])

\* The sends the test makes: 4 on the slow queue, 8 on the fast queue.
AsyncSends == {[q |-> SlowLane, v |-> 4], [q |-> FastLane, v |-> 8]}

\* Every sequence of at most MaxSends such sends.
AsyncPlans == UNION {[1..n -> AsyncSends] : n \in 1..MaxSends}

AsyncInit ==
    /\ kind = <<"receiver", "receiver", "receiver">>
    /\ ext = [i \in Lanes |-> <<>>]
    /\ extOpen = [i \in Lanes |-> TRUE]
    /\ out = [j \in Lanes |-> <<>>]
    /\ pc = [i \in Lanes |-> "start"]
    /\ pos = [i \in Lanes |-> 0]
    /\ cur = [i \in Lanes |-> 0]
    /\ lock = 0
    /\ poisoned = FALSE
    /\ loops = [i \in Lanes |-> 0]
    /\ rpc = [j \in Lanes |-> "run"]
    /\ pushed = [j \in Lanes |-> <<>>]
    /\ calls = [j \in Lanes |-> IF j = SlowLane THEN <<AsyncInitial(j)>> ELSE <<>>]
    /\ sunk = [j \in Lanes |-> <<>>]
    /\ hist = [j \in Lanes |-> <<>>]
    /\ sent = [i \in Lanes |-> <<>>]
    /\ ticks = <<>>
    /\ tk = [i \in Lanes |-> 0]
    /\ tdone = {}
    /\ fold = FoldInit
    /\ fork = ForkInit
    /\ liftn = [q     |-> [p \in Parents |-> <<>>],
                seen  |-> [p \in Parents |-> <<>>],
                cache |-> [p \in Parents |-> AsyncInitial(p + 1)],
                calls |-> << [p \in Parents |-> AsyncInitial(p + 1)] >>,
                out   |-> <<>>,
                done  |-> FALSE]
    /\ async \in {[st |-> "idle", arg |-> 0, plan |-> pl, n |-> 0] : pl \in AsyncPlans}
    /\ noops = NoOpVector
    /\ builder = BuilderOff

\* The test thread makes the next send of its plan.
AsyncExtSend ==
    /\ async.n < Len(async.plan)
    /\ LET s == async.plan[async.n + 1] IN
       /\ ext' = [ext EXCEPT ![s.q] = Append(@, s.v)]
       /\ sent' = [sent EXCEPT ![s.q] = Append(@, s.v)]
    /\ async' = [async EXCEPT !.n = @ + 1]
    /\ UNCHANGED <<builder, noops, fold, fork, liftn, kind, extOpen, out, pc, pos, cur, lock, poisoned,
                   loops, rpc, pushed, calls, sunk, hist, ticks, tk, tdone>>

\* The Async's Runner receives the next event of the slow lane; on Changed it
\* enters the wrapped function.  Unchanged carries no value for the queue.
AsyncRecv ==
    /\ async.st = "idle"
    /\ out[SlowLane] # <<>>
    /\ LET e == ChannelTake(out[SlowLane]) IN
       /\ out' = [out EXCEPT ![SlowLane] = ChannelRest(@)]
       /\ pushed' = [pushed EXCEPT ![SlowLane] = Append(@, e)]
       /\ calls' = [calls EXCEPT ![SlowLane] = @ \o LiftArgs(e)]
       /\ IF e.tag = "Changed"
          THEN async' = [async EXCEPT !.st = "busy", !.arg = e.val]
          ELSE UNCHANGED async
    /\ UNCHANGED <<builder, noops, fold, fork, liftn, kind, ext, extOpen, pc, pos, cur, lock, poisoned,
                   loops, rpc, sunk, hist, sent, ticks, tk, tdone>>

\* The Async's Runner is inside the wrapped function.
RunnerBusy(j) == j = SlowLane /\ async.st = "busy"

\* One tick of the LiftN's Runner: one event of the async lane and one of the
\* fast lane, combined with f = |i, j| i | j.
AsyncCombine(c, t) ==
    IF \E p \in Parents : t[p].tag = "Exit" THEN Exit
    ELSE IF \E p \in Parents : t[p].tag = "Changed" THEN Changed(AsyncF(LiftNCache(c, t)))
    ELSE Unchanged

AsyncLiftNTick ==
    /\ ~liftn.done
    /\ out[AsyncLane] # <<>>
    /\ out[FastLane] # <<>>
    /\ LET t == [p \in Parents |-> ChannelTake(out[p + 1])]
           o == AsyncCombine(liftn.cache, t)
       IN  /\ liftn' = [q     |-> liftn.q,
                        seen  |-> [p \in Parents |-> Append(liftn.seen[p], t[p])],
                        cache |-> LiftNCache(liftn.cache, t),
                        calls |-> IF o.tag = "Changed"
                                  THEN Append(liftn.calls, LiftNCache(liftn.cache, t))
                                  ELSE liftn.calls,
                        out   |-> Append(liftn.out, o),
                        done  |-> o = Exit]
           /\ pushed' = [pushed EXCEPT ![AsyncLane] = Append(@, t[1]),
                                       ![FastLane] = Append(@, t[2])]
    /\ out' = [out EXCEPT ![AsyncLane] = ChannelRest(@), ![FastLane] = ChannelRest(@)]
    /\ UNCHANGED <<builder, noops, fold, fork, async, kind, ext, extOpen, pc, pos, cur, lock, poisoned,
                   loops, rpc, calls, sunk, hist, sent, ticks, tk, tdone>>

\* Every step other than the return of the wrapped function.
AsyncOthers ==
    \/ AsyncExtSend
    \/ \E i \in Lanes : ReceiverStart(i)
    \/ \E i \in Lanes : ReceiverRecvOk(i)
    \/ \E i \in Lanes : ReceiverLock(i)
    \/ \E i \in Lanes : ReceiverBcast(i)
    \/ AsyncRecv
    \/ AsyncLiftNTick

\* The sleep of the wrapped function (100 ms) outlasts the test's sends and
\* every step the threads can take without waiting for it.
SleepElapsed == ~ENABLED AsyncOthers

\* The wrapped function returns: the Async's sink sends its result on the
\* fresh queue, the inbound queue of the Async's Input.
AsyncReturn ==
    /\ async.st = "busy"
    /\ IsSlow(async.arg) => SleepElapsed
    /\ ext' = [ext EXCEPT ![AsyncLane] = Append(@, SlowF(async.arg))]
    /\ sent' = [sent EXCEPT ![AsyncLane] = Append(@, SlowF(async.arg))]
    /\ sunk' = [sunk EXCEPT ![SlowLane] = Append(@, Changed(SlowF(async.arg)))]
    /\ async' = [async EXCEPT !.st = "idle"]
    /\ UNCHANGED <<builder, noops, fold, fork, liftn, kind, extOpen, out, pc, pos, cur, lock, poisoned,
                   loops, rpc, pushed, calls, hist, ticks, tk, tdone>>

NextAsync ==
    \/ AsyncExtSend
    \/ \E i \in Lanes : ReceiverStart(i)
    \/ \E i \in Lanes : ReceiverRecvOk(i)
    \/ \E i \in Lanes : ReceiverLock(i)
    \/ \E i \in Lanes : ReceiverBcast(i)
    \/ AsyncRecv
    \/ AsyncLiftNTick
    \/ AsyncReturn

SpecAsync == AsyncInit /\ [][NextAsync]_vars

\* The values the function given to lift2 was evaluated to, in order: what the
\* test reads from out_rx.
AsyncOutputs == [k \in 1..Len(liftn.calls) |-> AsyncF(liftn.calls[k])]

\* ------------------------------------------------------------------ Builder
\* spawn_topology: Builder::new, the user's closure f calling the Builder's
\* operations, then Topology::new(inputs, runners).run().
MaxOps == 3         \* operations the closure performs on the Builder

\* Builder::new: both collections empty.
BuilderNew == [phase |-> "build", inputs |-> <<>>, runners |-> <<>>, sinks |-> <<>>,
               pend |-> <<>>, iter |-> {}, idx |-> <<>>, log |-> <<>>]

\* The Builder exists only while f runs: spawn_topology moves its collections
\* into the Topology before run.
BuildOpen == builder.phase = "build"

\* What add pushes on runners: the Fork wrapping the signal.
AddRunners == <<"fork">>

\* What listen pushes on inputs: the ReceiverInput, tagged with the number of
\* Inputs registered before it.
ListenInputs(n) == <<[kind |-> "receiver", before |-> n]>>

\* Mutant: async does not register its pusher.
AsyncRunners_None == <<>>

\* What async pushes on runners before it calls listen: the Async pusher.
AsyncRunners == <<"async">>

\* The collections after add(signal): runners.push(fork).  The Fork's sink
\* vector starts empty and the Branch add returns has no queue yet.
AfterAdd(b) ==
    [b EXCEPT !.runners = @ \o AddRunners,
              !.sinks = @ \o [k \in 1..Len(AddRunners) |-> 0],
              !.pend = @ \o [k \in 1..Len(AddRunners) |-> 0]]

\* The collections after listen(initial, rx): inputs.push(runner), then add.
AfterListen(b) ==
    AfterAdd([b EXCEPT !.inputs = @ \o ListenInputs(Len(b.inputs))])

\* The collections after async(signal): runners.push(pusher), then listen.
AfterAsync(b) ==
    AfterListen([b EXCEPT !.runners = @ \o AsyncRunners,
                          !.sinks = @ \o [k \in 1..Len(AsyncRunners) |-> 0],
                          !.pend = @ \o [k \in 1..Len(AsyncRunners) |-> 0]])

Logged(b, op) == [b EXCEPT !.log = Append(builder.log, op)]

\* The Branch that add returned for Fork u is still unused: no signal added so
\* far was built on it.
HandleFree(u) ==
    /\ u \in DOMAIN builder.runners
    /\ builder.runners[u] = "fork"
    /\ \A r \in DOMAIN builder.pend : builder.pend[r] # u

\* The new Runner's signal is built on the Branch that add returned for Fork u
\* (moved into the signal, its queue still None), or, with u = 0, on a Value
\* or on clones only.
Attach(b, u) == [b EXCEPT !.pend[Len(b.pend)] = u]

BuilderAdd(u) ==
    /\ BuildOpen
    /\ Len(builder.log) < MaxOps
    /\ u # 0 => HandleFree(u)
    /\ builder' = Logged(Attach(AfterAdd(builder), u), "add")
    /\ UNCHANGED <<coreVars, fold, fork, liftn, async, noops>>

BuilderListen ==
    /\ BuildOpen
    /\ Len(builder.log) < MaxOps
    /\ builder' = Logged(AfterListen(builder), "listen")
    /\ UNCHANGED <<coreVars, fold, fork, liftn, async, noops>>

BuilderAsync ==
    /\ BuildOpen
    /\ Len(builder.log) < MaxOps
    /\ builder' = Logged(AfterAsync(builder), "async")
    /\ UNCHANGED <<coreVars, fold, fork, liftn, async, noops>>

\* value(v) returns Value::new(v) and touches neither collection.
BuilderValue ==
    /\ BuildOpen
    /\ Len(builder.log) < MaxOps
    /\ builder' = Logged(builder, "value")
    /\ UNCHANGED <<coreVars, fold, fork, liftn, async, noops>>

\* A Branch of the Fork that is Runner r is cloned: a new sink is registered
\* in the Fork's vector, under the vector's lock.
BranchClone(r) ==
    /\ BuildOpen
    /\ Len(builder.log) < MaxOps
    /\ r \in DOMAIN builder.runners
    /\ builder.runners[r] = "fork"
    /\ r \notin builder.iter
    /\ builder' = Logged([builder EXCEPT !.sinks[r] = @ + 1], "clone")
    /\ UNCHANGED <<coreVars, fold, fork, liftn, async, noops>>

\* f has returned: Topology::run spawns the Runners and the Inputs, each Input
\* with its index in the enumeration of the inputs vector (from 0).
TopologyRun ==
    /\ builder.phase = "build"
    /\ builder' = [builder EXCEPT !.phase = "run",
                                  !.idx = [k \in 1..Len(builder.inputs) |-> k - 1]]
    /\ UNCHANGED <<coreVars, fold, fork, liftn, async, noops>>

\* The thread of the Fork that is Runner r starts to fan an event out over its
\* sink vector, and finishes.
ForkIterBegin(r) ==
    /\ builder.phase = "run"
    /\ r \in DOMAIN builder.runners
    /\ builder.runners[r] = "fork"
    /\ r \notin builder.iter
    /\ builder' = [builder EXCEPT !.iter = @ \cup {r}]
    /\ UNCHANGED <<coreVars, fold, fork, liftn, async, noops>>

ForkIterEnd(r) ==
    /\ r \in builder.iter
    /\ builder' = [builder EXCEPT !.iter = @ \ {r}]
    /\ UNCHANGED <<coreVars, fold, fork, liftn, async, noops>>

\* Branch::push_to, called in the thread of Runner r when Fork::run drives its
\* signal: a Branch without a queue registers a new sink in the vector of its
\* Fork, under the vector's lock.
BranchPushTo(r) ==
    /\ builder.phase = "run"
    /\ r \in DOMAIN builder.pend
    /\ builder.pend[r] # 0
    /\ builder.pend[r] \notin builder.iter
    /\ builder' = [builder EXCEPT !.sinks[builder.pend[r]] = @ + 1,
                                  !.pend[r] = 0]
    /\ UNCHANGED <<coreVars, fold, fork, liftn, async, noops>>

Runners == 1..(2 * MaxOps)

BuildInit ==
    /\ CoreIdle
    /\ fold = FoldInit /\ fork = ForkInit /\ liftn = LiftNInit /\ async = AsyncOff
    /\ noops = <<>>
    /\ builder = BuilderNew

NextBuild ==
    \/ \E u \in {0} \cup Runners : BuilderAdd(u)
    \/ BuilderListen
    \/ BuilderAsync
    \/ BuilderValue
    \/ \E r \in Runners : BranchClone(r)
    \/ TopologyRun
    \/ \E r \in Runners : ForkIterBegin(r)
    \/ \E r \in Runners : ForkIterEnd(r)
    \/ \E r \in Runners : BranchPushTo(r)

SpecBuild == BuildInit /\ [][NextBuild]_vars

\* ------------------------------------------------------------------ Next
InputStep(i) ==
    \/ ReceiverStart(i)
    \/ ReceiverRecvOk(i)
    \/ ReceiverRecvErr(i)
    \/ ReceiverLock(i)
    \/ ReceiverBcast(i)
    \/ ReceiverExit(i)
    \/ ValueStart(i)
    \/ ValueLoop(i)

RunnerStep(j) ==
    \/ ChannelRecv(j)
    \/ ChannelRecvAbort(j)
    \/ ChannelClosed(j)

ThreadNext == \E i \in Lanes : InputStep(i) \/ RunnerStep(i)

Next ==
    \/ \E i \in Lanes, v \in Values : ExtSend(i, v)
    \/ \E i \in Lanes : ExtClose(i)
    \/ \E i \in Lanes : ReceiverStart(i)
    \/ \E i \in Lanes : ReceiverRecvOk(i)
    \/ \E i \in Lanes : ReceiverRecvErr(i)
    \/ \E i \in Lanes : ReceiverLock(i)
    \/ \E i \in Lanes : ReceiverBcast(i)
    \/ \E i \in Lanes : ReceiverExit(i)
    \/ \E i \in Lanes : ValueStart(i)
    \/ \E i \in Lanes : ValueLoop(i)
    \/ \E j \in Lanes : ChannelRecv(j)
    \/ \E j \in Lanes : ChannelRecvAbort(j)
    \/ \E j \in Lanes : ChannelClosed(j)

Init == CoreInit /\ NodesInit

Spec == Init /\ [][Next]_vars

\* The threads are scheduled: a thread that can take a step is not left
\* waiting forever.  Every step of a thread consumes a bounded resource (a
\* value sent, a queued event, an iteration of a loop), so fairness of the
\* threads as a whole gives each of them its turn, the mutex included.
SpecLive == Spec /\ WF_vars(ThreadNext)

\* ------------------------------------------------------------------ absent sink
\* A Runner started as LiftSignal::push_to(None): the Lift hands None to its
\* parent and drops f; Channel::push_to(None) receives until the queue closes.
\* Mutant: the drain loop also invokes the user function.
DrainArgs_Lift(e) == LiftArgs(e)

\* The arguments f is invoked with for an event received without a sink.
DrainArgs(e) == <<>>

\* Mutant: the drain loop returns when it receives an Exit event.
DrainNext_ReturnOnExit(e) == IF e = Exit THEN "drained" ELSE "drain"

\* Position of the Runner after it received e without a sink: `_ => {}`.
DrainNext(e) == "drain"

\* Channel::push_to(None), any Ok: the event is dropped.
ChannelDrain(j) ==
    /\ rpc[j] = "drain"
    /\ out[j] # <<>>
    /\ LET e == ChannelTake(out[j]) IN
       /\ out' = [out EXCEPT ![j] = IF DrainNext(e) = "drain" THEN ChannelRest(@) ELSE <<>>]
       /\ calls' = [calls EXCEPT ![j] = @ \o DrainArgs(e)]
       /\ rpc' = [rpc EXCEPT ![j] = DrainNext(e)]
    /\ UNCHANGED <<nodes, kind, ext, extOpen, pc, pos, cur, lock, poisoned, loops,
                   pushed, sunk, hist, sent, ticks, tk, tdone>>

\* Channel::push_to(None), Err arm: return.
ChannelDrainClosed(j) ==
    /\ rpc[j] = "drain"
    /\ out[j] = <<>>
    /\ NoSenders
    /\ rpc' = [rpc EXCEPT ![j] = "drained"]
    /\ UNCHANGED <<nodes, kind, ext, extOpen, out, pc, pos, cur, lock, poisoned, loops,
                   pushed, calls, sunk, hist, sent, ticks, tk, tdone>>

\* Topologies in which at least one lane's Runner has no sink.
DrainInit ==
    /\ kind \in Topologies
    /\ ext = [i \in Lanes |-> <<>>]
    /\ extOpen = [i \in Lanes |-> kind[i] = "receiver"]
    /\ out = [j \in Lanes |-> <<>>]
    /\ pc = [i \in Lanes |-> "start"]
    /\ pos = [i \in Lanes |-> 0]
    /\ cur = [i \in Lanes |-> 0]
    /\ lock = 0
    /\ poisoned = FALSE
    /\ loops = [i \in Lanes |-> 0]
    /\ rpc \in {r \in [Lanes -> {"run", "drain"}] : \E j \in Lanes : r[j] = "drain"}
    /\ pushed = [j \in Lanes |-> <<>>]
    /\ calls = [j \in Lanes |-> LiftInitialCalls(kind[j], j)]
    /\ sunk = [j \in Lanes |-> <<>>]
    /\ hist = [j \in Lanes |-> <<>>]
    /\ sent = [i \in Lanes |-> <<>>]
    /\ ticks = <<>>
    /\ tk = [i \in Lanes |-> 0]
    /\ tdone = {}
    /\ NodesInit

DrainThreadNext ==
    \E i \in Lanes : InputStep(i) \/ RunnerStep(i) \/ ChannelDrain(i) \/ ChannelDrainClosed(i)

NextDrain ==
    \/ \E i \in Lanes, v \in Values : ExtSend(i, v)
    \/ \E i \in Lanes : ExtClose(i)
    \/ \E i \in Lanes : ReceiverStart(i)
    \/ \E i \in Lanes : ReceiverRecvOk(i)
    \/ \E i \in Lanes : ReceiverRecvErr(i)
    \/ \E i \in Lanes : ReceiverLock(i)
    \/ \E i \in Lanes : ReceiverBcast(i)
    \/ \E i \in Lanes : ReceiverExit(i)
    \/ \E i \in Lanes : ValueStart(i)
    \/ \E i \in Lanes : ValueLoop(i)
    \/ \E j \in Lanes : ChannelRecv(j)
    \/ \E j \in Lanes : ChannelRecvAbort(j)
    \/ \E j \in Lanes : ChannelClosed(j)
    \/ \E j \in Lanes : ChannelDrain(j)
    \/ \E j \in Lanes : ChannelDrainClosed(j)

SpecDrain == DrainInit /\ [][NextDrain]_vars

\* ------------------------------------------------------------------ observers
IsPrefix(s, t) == Len(s) <= Len(t) /\ SubSeq(t, 1, Len(s)) = s

IsChanged(e) == e.tag = "Changed"

\* Payloads of the Changed events of a sequence of events, in order.
ChangedVals(q) == LET c == SelectSeq(q, IsChanged) IN [k \in 1..Len(c) |-> c[k].val]

\* Positions of lane j's history that belong to tick t.
TickIdx(j, t) == {k \in DOMAIN hist[j] : hist[j][k].tick = t}

IsTickEntry(h) == h.tick # 0

\* Ticks of lane j's tick events, in the order they were enqueued.
TickSeq(j) == LET c == SelectSeq(hist[j], IsTickEntry) IN [k \in 1..Len(c) |-> c[k].tick]

\* No outbound queue has been torn down by an aborting Runner.
NoTeardown == \A j \in Lanes : rpc[j] # "aborted"

\* No external producer has sent a value or closed its queue.
NoExternal == NumSent = 0 /\ \A i \in Lanes : kind[i] = "receiver" => extOpen[i]

\* The invocations of f made at run time by the LiftPusher of lane j.
RuntimeCalls(j) == SubSeq(calls[j], Len(LiftInitialCalls(kind[j], j)) + 1, Len(calls[j]))

AllThreadsDone == \A i \in Lanes : pc[i] \in {"done", "panic"} /\ rpc[i] \in {"done", "aborted"}

\* ------------------------------------------------------------------ claims
\* C1: per-tick alignment.  While no outbound queue is torn down, every
\* external arrival (tick) of Input i puts at most one event of that tick on
\* each lane and, once its broadcast loop has ended, exactly one: Changed(v)
\* on lane i and Unchanged on every other lane.  A tick in progress has
\* reached exactly the lanes before the loop's position.
C1_PerTickAlignment ==
    NoTeardown =>
        \A t \in 1..Len(ticks) : \A j \in Lanes :
            LET i == ticks[t].by
                n == Cardinality(TickIdx(j, t))
            IN  /\ n <= 1
                /\ \A k \in TickIdx(j, t) :
                      /\ hist[j][k].ev = IF j = i THEN Changed(ticks[t].val) ELSE Unchanged
                      /\ hist[j][k].by = i
                /\ \/ t \in tdone /\ n = 1
                   \/ tk[i] = t /\ pc[i] = "lock" /\ n = 0
                   \/ tk[i] = t /\ pc[i] = "bcast" /\ (n = 1 <=> j < pos[i])

C1_Witness ==
    /\ NoTeardown
    /\ kind = <<"receiver", "receiver">>
    /\ Len(ticks) = 2 /\ tdone = {1, 2}
    /\ ticks[1].by = 2 /\ ticks[2].by = 1

\* C2: global tick order.  The tick events of any two lanes list the ticks in
\* the same order (one list is a prefix of the other), and a thread inside the
\* broadcast loop or the Exit loop holds the mutex of the NoOp vector, alone.
C2_GlobalTickOrder ==
    /\ \A j1 \in Lanes, j2 \in Lanes :
          IsPrefix(TickSeq(j1), TickSeq(j2)) \/ IsPrefix(TickSeq(j2), TickSeq(j1))
    /\ \A i \in Lanes : pc[i] \in {"bcast", "exit"} => lock = i
    /\ Cardinality({i \in Lanes : pc[i] \in {"bcast", "exit"}}) <= 1

C2_Witness ==
    /\ pc[1] = "bcast" /\ pos[1] = 2
    /\ pc[2] = "lock"
    /\ tk[2] < tk[1]

\* C3 as claimed: once an Input has entered its loop it has emitted
\* Changed(initial) on its own lane.
C3_InitialPassClaimed ==
    \A i \in Lanes :
        pc[i] # "start" =>
            \E k \in DOMAIN hist[i] : hist[i][k] = Entry(Changed(Initial(i)), 0, i)

\* C3 as amended: only a ValueInput emits Changed(initial) before its loop, as
\* the first event it sends; a ReceiverInput sends nothing but tick events and
\* Exit; and before any external send or close no Input holds the mutex and
\* no lane holds an event of a peer, so a ReceiverInput's lane is empty.
C3_InitialPass ==
    /\ \A i \in Lanes :
          kind[i] = "value" /\ pc[i] # "start" =>
              LET own == SelectSeq(hist[i], LAMBDA h : h.by = i)
              IN  own # <<>> /\ own[1].ev = Changed(Initial(i))
    /\ \A i \in Lanes, j \in Lanes :
          kind[i] = "receiver" =>
              \A k \in DOMAIN hist[j] :
                  hist[j][k].by = i => hist[j][k].tick # 0 \/ hist[j][k].ev = Exit
    /\ NoExternal =>
          /\ lock = 0
          /\ \A j \in Lanes :
                /\ kind[j] = "receiver" => hist[j] = <<>>
                /\ \A k \in DOMAIN hist[j] : hist[j][k].by = j

C3_Witness ==
    /\ NoExternal
    /\ kind = <<"receiver", "value">>
    /\ pc[1] = "recv"
    /\ pc[2] = "loop"
    /\ hist[1] = <<>>
    /\ Len(hist[2]) >= 2

\* C4: for listen(initial, rx).lift(f) the invocations of f are f(initial),
\* then the values sent on rx in their send order: never a duplicate or a
\* reordering, and, while no queue is torn down, no loss (every sent value is
\* in the external queue, held by the Input, in the lane's queue, or was
\* passed to f).
C4_ListenLiftOrder ==
    \A j \in Lanes :
        kind[j] = "receiver" =>
            /\ IsPrefix(calls[j], <<Initial(j)>> \o sent[j])
            /\ NoTeardown =>
                  calls[j] \o ChangedVals(out[j])
                           \o (IF pc[j] = "lock" \/ (pc[j] = "bcast" /\ pos[j] <= j)
                               THEN <<cur[j]>> ELSE <<>>)
                           \o ext[j]
                  = <<Initial(j)>> \o sent[j]

C4_Witness ==
    \E j \in Lanes :
        /\ kind[j] = "receiver"
        /\ Len(sent[j]) = 2
        /\ calls[j] = <<Initial(j)>> \o sent[j]

C6_LiftPurity ==
    \A j \in Lanes : RuntimeCalls(j) = ChangedVals(pushed[j])

C6_Witness ==
    \E j \in Lanes :
        /\ \E k \in DOMAIN pushed[j] : pushed[j][k] = Unchanged
        /\ \E k \in DOMAIN pushed[j] : pushed[j][k] = Exit
        /\ Len(RuntimeCalls(j)) = 1

\* C7: LiftN combine rule.  Every tick consumed one event of each parent; the
\* k-th output is Exit if a parent's k-th event is Exit, else Changed(f(c)) if
\* a parent's k-th event is Changed, c being for each parent the payload of its
\* latest Changed event up to and including tick k, or its initial value, else
\* Unchanged.  The first evaluation of f is on the initial values, and every
\* later one is on the latest values of a tick with a Changed parent.
LatestValue(p, k) ==
    LET idx == {m \in 1..k : liftn.seen[p][m].tag = "Changed"}
    IN  IF idx = {} THEN ParentInitial(p)
        ELSE liftn.seen[p][CHOOSE m \in idx : \A r \in idx : r <= m].val

TickHas(k, tag) == \E p \in Parents : liftn.seen[p][k].tag = tag

C7_LiftNCombine ==
    /\ \A p \in Parents : Len(liftn.seen[p]) = Len(liftn.out)
    /\ \A k \in 1..Len(liftn.out) :
          liftn.out[k] = IF TickHas(k, "Exit") THEN Exit
                         ELSE IF TickHas(k, "Changed")
                              THEN Changed(LiftNF([p \in Parents |-> LatestValue(p, k)]))
                              ELSE Unchanged
    /\ liftn.calls = << [p \in Parents |-> ParentInitial(p)] >> \o
          LET ks == SelectSeq([k \in 1..Len(liftn.out) |-> k],
                              LAMBDA k : liftn.out[k].tag = "Changed")
          IN  [n \in 1..Len(ks) |-> [p \in Parents |-> LatestValue(p, ks[n])]]

\* listen(a, rx) combined with value(b): after f(a, b), sending x gives f(x, b);
\* and a tick on which both parents are Changed.
C7_Witness ==
    /\ liftn.seen[1] = <<Changed(1), Changed(2)>>
    /\ liftn.seen[2] = <<Unchanged, Changed(1)>>
    /\ liftn.calls = << <<ParentInitial(1), ParentInitial(2)>>,
                        <<1, ParentInitial(2)>>, <<2, 1>> >>

\* C8: Fold call count.  f was invoked once per Changed event received, with
\* its payload, and never for Unchanged or Exit; the Fold emitted one event per
\* event received: Unchanged for Unchanged, Exit for Exit, and for Changed the
\* accumulator, which is the seed plus the payloads folded so far.
SumSeq(q) == LET S[k \in 0..Len(q)] == IF k = 0 THEN 0 ELSE S[k - 1] + q[k]
             IN  S[Len(q)]

C9_ForkFanOut ==
    \A b \in Branches : fork.got[b] \o fork.q[b] = fork.emitted

C9_Witness ==
    /\ Len(fork.emitted) >= 3
    /\ \E k \in DOMAIN fork.emitted : fork.emitted[k] = Exit
    /\ fork.got[2] = fork.emitted
    /\ Len(fork.got[1]) = 1

\* C10: exit convergence.  In a topology of ReceiverInputs, once an external
\* queue has been closed and no thread can take a step any more, every Input
\* thread and every Runner thread has terminated.
C10_ExitConvergence ==
    (/\ \A i \in Lanes : kind[i] = "receiver"
     /\ \E i \in Lanes : ~extOpen[i]
     /\ ~ENABLED ThreadNext)
    => AllThreadsDone

\* Input i returned from its broadcast loop because the send on a peer's lane
\* failed: it is done, the position it stopped at is a peer, and it never
\* reached the Exit loop.
PeerClosedReturn(i) ==
    /\ kind[i] = "receiver"
    /\ pc[i] = "done"
    /\ pos[i] \in Lanes \ {i}
    /\ \A j \in Lanes : \A k \in DOMAIN hist[j] :
          ~(hist[j][k].by = i /\ hist[j][k].ev = Exit)

\* C11: Exit monotonicity.  On every lane the Exit the consumer's sink emits
\* downstream is the last event it emits: no Changed or Unchanged follows an
\* Exit, and the Runner that pushed an Exit has terminated.
C11_ExitMonotone ==
    \A j \in Lanes :
        /\ \A k \in DOMAIN sunk[j] : sunk[j][k] = Exit => k = Len(sunk[j])
        /\ (\E k \in DOMAIN pushed[j] : pushed[j][k] = Exit) => rpc[j] # "run"

\* C12: lane-closed is never surfaced as an exception.  No Input thread
\* panics, whatever the order in which the external queues are closed and the
\* outbound queues are torn down.
C12_NoPanicOnClosure ==
    \A i \in Lanes : pc[i] # "panic"

\* C13: peer-closed during broadcast.  An Input whose send_no_change reported
\* a torn-down peer has terminated, and once no thread can take a step its
\* own consumer has observed lane-closed and left its loop.
C13_PeerClosed ==
    \A i \in Lanes :
        (PeerClosedReturn(i) /\ ~ENABLED ThreadNext) => rpc[i] # "run"

IsUnchanged(h) == h.ev = Unchanged

\* C14: failure confinement.  After the Runner of lane j was torn down by its
\* aborting user function, no thread of another lane panics.
C14_FailureConfinement ==
    \A j \in Lanes :
        rpc[j] = "aborted" => \A i \in Lanes \ {j} : pc[i] # "panic"

\* C15: Value lane.  The lane of a ValueInput carries at most one Changed
\* event, Changed(v) sent by the ValueInput itself; its first event is that
\* Changed(v); and it carries as many Unchanged events as peers broadcast to it.
C15_ValueLane ==
    \A j \in Lanes :
        kind[j] = "value" =>
            /\ \A k \in DOMAIN hist[j] :
                  IsChanged(hist[j][k].ev) => hist[j][k] = Entry(Changed(Initial(j)), 0, j)
            /\ Len(SelectSeq(hist[j], LAMBDA h : IsChanged(h.ev))) <= 1
            /\ Len(SelectSeq(hist[j], IsUnchanged))
                  = Len(SelectSeq(hist[j], LAMBDA h : h.by # j /\ h.tick # 0))

\* The plan of scenario S4: 4 on the slow queue, then 8 on the fast queue.
S4Plan == <<[q |-> SlowLane, v |-> 4], [q |-> FastLane, v |-> 8]>>

ExitsBy(i, j) == Len(SelectSeq(hist[j], LAMBDA h : h.by = i /\ h.ev = Exit))

\* The events enqueued on lane j, in order.
LaneEvents(j) == [k \in 1..Len(hist[j]) |-> hist[j][k].ev]

IsExit(e) == e = Exit

\* C18: an Input that started the Exit broadcast never enqueues two Exits on a
\* lane, serves the lanes in vector order, enqueues nothing after its Exit, and
\* once it has stopped it has enqueued exactly one Exit on every lane.
C18_ExitBroadcast ==
    \A i \in Lanes :
        /\ \A j \in Lanes :
              /\ ExitsBy(i, j) <= 1
              /\ ExitsBy(i, j) = 1 => \A k \in Lanes : k < j => ExitsBy(i, k) = 1
              /\ \A m \in DOMAIN hist[j], n \in DOMAIN hist[j] :
                    (hist[j][m].by = i /\ hist[j][m].ev = Exit /\ hist[j][n].by = i) => n <= m
        /\ (pc[i] \in {"done", "panic"} /\ \E j \in Lanes : ExitsBy(i, j) = 1) =>
              \A j \in Lanes : ExitsBy(i, j) = 1

\* C19: Channel with a sink.  What the Channel pushed, followed by what its
\* queue buffers, is what was enqueued on the lane, in order; a Channel that
\* returned pushed every enqueued event and then one Exit; and the sink
\* received Exit at most once.
C19_ChannelSink ==
    \A j \in Lanes :
        /\ rpc[j] = "run" => pushed[j] \o out[j] = LaneEvents(j)
        /\ rpc[j] = "done" => pushed[j] = Append(LaneEvents(j), Exit)
        /\ Len(SelectSeq(pushed[j], IsExit)) <= 1

\* C20: absent sink.  A Runner without a sink pushes nothing downstream and
\* never invokes f; it returns only when the queue is closed, after it
\* consumed every event enqueued; and when no thread can take a step its
\* queue is empty, so no sender waits for it.
C20_AbsentSink ==
    \A j \in Lanes :
        rpc[j] \in {"drain", "drained"} =>
            /\ pushed[j] = <<>>
            /\ sunk[j] = <<>>
            /\ RuntimeCalls(j) = <<>>
            /\ rpc[j] = "drained" => NoSenders /\ out[j] = <<>>
            /\ ~ENABLED DrainThreadNext => out[j] = <<>>

C20_Witness ==
    \E j \in Lanes :
        /\ rpc[j] = "drained"
        /\ kind[j] = "receiver"
        /\ Len(sent[j]) = 2
        /\ \E k \in DOMAIN hist[j] : hist[j][k].ev = Exit
        /\ Len(hist[j]) >= 4

\* C21: Lift is event-preserving.  The events a LiftPusher pushed to its child
\* are, one for one and in order, the events pushed into it: the k-th has the
\* tag of the k-th received, and for Changed(a) the payload f(a).  Only the
\* event on which f aborted, the last one of an unwound Runner, has no image.
C21_LiftEventPreserving ==
    \A j \in Lanes :
        /\ Len(sunk[j]) = Len(pushed[j]) - (IF rpc[j] = "aborted" THEN 1 ELSE 0)
        /\ \A k \in DOMAIN sunk[j] :
              /\ sunk[j][k].tag = pushed[j][k].tag
              /\ sunk[j][k].val = IF pushed[j][k].tag = "Changed"
                                  THEN F(pushed[j][k].val) ELSE 0

C21_Witness ==
    \E j \in Lanes :
        /\ Len(sunk[j]) >= 3
        /\ \E k \in DOMAIN sunk[j] : sunk[j][k] = Changed(F(1))
        /\ \E k \in DOMAIN sunk[j] : sunk[j][k] = Unchanged
        /\ \E k \in DOMAIN sunk[j] : sunk[j][k] = Exit

\* C22: NoOp vector wiring.  The vector holds one handle per Input and its
\* k-th handle sends to the lane of Input k, in every state of a run; hence
\* the event of a tick an Input puts on its own lane is its Changed, never an
\* Unchanged, its Changed goes to no other lane, and while it broadcasts its
\* Changed is on its lane exactly when the loop has passed its own index.
C22_NoOpWiring ==
    /\ Len(noops) = NumInputs
    /\ \A k \in Lanes : noops[k] = k
    /\ \A j \in Lanes : \A n \in DOMAIN hist[j] :
          hist[j][n].tick # 0 =>
              (IsChanged(hist[j][n].ev) <=> hist[j][n].by = j)
    /\ \A i \in Lanes :
          pc[i] = "bcast" =>
              ((\E n \in DOMAIN hist[i] : hist[i][n].tick = tk[i]) <=> pos[i] > InputIdx(i))

C22_Witness ==
    /\ kind = <<"receiver", "receiver">>
    /\ pc[2] = "bcast" /\ pos[2] = 2
    /\ \E n \in DOMAIN hist[1] : hist[1][n] = Entry(Unchanged, tk[2], 2)
    /\ \E n \in DOMAIN hist[2] : hist[2][n].by = 1 /\ hist[2][n].ev = Unchanged

\* What a step appended to a collection.
Appended(old, new) == SubSeq(new, Len(old) + 1, Len(new))

\* C23: Builder bookkeeping.  Every step leaves the Inputs and the Runners it
\* found in place (append-only); add appends one Fork Runner and no Input;
\* listen appends one Input and one Fork Runner; async appends an Async Runner
\* followed by a Fork Runner, and one Input; value and the cloning of a Branch
\* append nothing; and the index an Input is run with is the number of Inputs
\* registered before it.
C23_BuilderBookkeeping ==
    [][ /\ IsPrefix(builder.inputs, builder'.inputs)
        /\ IsPrefix(builder.runners, builder'.runners)
        /\ builder'.log # builder.log =>
              LET op   == builder'.log[Len(builder'.log)]
                  newI == Appended(builder.inputs, builder'.inputs)
                  newR == Appended(builder.runners, builder'.runners)
              IN  /\ op = "add" => newI = <<>> /\ newR = <<"fork">>
                  /\ op = "listen" =>
                        Len(newI) = 1 /\ newI[1].kind = "receiver" /\ newR = <<"fork">>
                  /\ op = "async" =>
                        Len(newI) = 1 /\ newI[1].kind = "receiver" /\ newR = <<"async", "fork">>
                  /\ op \in {"value", "clone"} => newI = <<>> /\ newR = <<>>
        /\ builder'.phase = "run" =>
              /\ Len(builder'.idx) = Len(builder'.inputs)
              /\ \A k \in DOMAIN builder'.idx : builder'.idx[k] = builder'.inputs[k].before
      ]_vars

C23_Witness ==
    /\ builder.phase = "run"
    /\ builder.log = <<"listen", "async", "add">>
    /\ Len(builder.inputs) = 2
    /\ builder.runners = <<"fork", "async", "fork", "fork">>
    /\ builder.idx = <<0, 1>>

Broadcast(v) == \E t \in tdone : ticks[t].val = v

WasSent(v) == \E i \in Lanes : \E k \in DOMAIN sent[i] : sent[i][k] = v

InputRunning(i) == pc[i] \notin {"done", "panic"}

C27_ValueInputFrame ==
    \A i \in Lanes :
        kind[i] = "value" =>
            /\ pc[i] \in {"start", "loop", "done"}
            /\ lock # i
            /\ \A j \in Lanes \ {i} : \A k \in DOMAIN hist[j] : hist[j][k].by # i
            /\ \A k \in DOMAIN hist[i] : hist[i][k].by = i => hist[i][k].tick = 0
            /\ \A t \in DOMAIN ticks : ticks[t].by # i
            /\ pc[i] = "done" => ~RxAlive(i)

\* A ValueInput next to a ReceiverInput: the peer completed a tick on both
\* lanes, the ValueInput sent its Changed and an Unchanged, its lane's Runner
\* was torn down, and the ValueInput returned.
C27_Witness ==
    /\ kind = <<"receiver", "value">>
    /\ tdone # {}
    /\ pc[2] = "done"
    /\ rpc[2] = "aborted"
    /\ Len(SelectSeq(hist[2], LAMBDA h : h.by = 2)) >= 2
    /\ \E k \in DOMAIN hist[2] : hist[2][k].by = 1

====
